---- MODULE Spec2Model ----
(***************************************************************************)
(* The statement store of src/src/graphql/resolvers.ts and its REST        *)
(* facade of src/src/index.ts, over the backend reached through            *)
(* src/src/neo4j.ts.                                                       *)
(*                                                                         *)
(* A string is a sequence of one-character strings, so that trim, split,   *)
(* toLower, CONTAINS and JSON.stringify are computed character by          *)
(* character.  An optional value (null | x) is the sequence <<>> | <<x>>.  *)
(* A timestamp is the integer reading of the clock: toISOString is         *)
(* strictly monotone, so ORDER BY on the ISO strings is the order of the   *)
(* integers.  Every backend query (one session.run) is one atomic step.    *)
(***************************************************************************)
EXTENDS Integers, Sequences, FiniteSets

VARIABLES
    nodes,      \* the Identifier nodes of the graph: nodes[i] is node i's value
    stmts,      \* the STATEMENT edges of the graph (records, see CreateEdge)
    nextId,     \* crypto.randomUUID(): the ids handed out so far
    clock,      \* new Date(): the wall clock
    pc,         \* pc[c]: where caller c's request stands ("idle", "page", "ingest")
    loc,        \* loc[c]: the locals of caller c's handler while it awaits
    last,       \* the outcome most recently delivered to a caller, with its request
    scan        \* a client reading consecutive pages; no handler touches it

vars == <<nodes, stmts, nextId, clock, pc, loc, last, scan>>

(***************************************************************************)
(* Bounds of the model.                                                    *)
(***************************************************************************)
NumCallers == 2
MaxIds == 2
MaxStored == 3
MaxClock == 2
MaxTextLen == 7
MaxLimit == 2
MaxOffset == 2
MaxQueryLen == 2

Callers == 1..NumCallers

(***************************************************************************)
(* Strings.                                                                *)
(***************************************************************************)
\* The whitespace String.prototype.trim removes (of the characters modelled).
WhiteSpace == {" ", "\t", "\r", "\n"}

RECURSIVE TrimStart(_)
TrimStart(s) ==
    IF s # <<>> /\ Head(s) \in WhiteSpace THEN TrimStart(Tail(s)) ELSE s

RECURSIVE TrimEnd(_)
TrimEnd(s) ==
    IF s # <<>> /\ s[Len(s)] \in WhiteSpace
    THEN TrimEnd(SubSeq(s, 1, Len(s) - 1))
    ELSE s

\* String.prototype.trim
Trim(s) == TrimEnd(TrimStart(s))

\* String.prototype.split(sep) for a one-character separator: the pieces
\* between separators, empty pieces kept; "" splits into one empty piece.
RECURSIVE SplitFrom(_, _, _, _)
SplitFrom(s, sep, i, cur) ==
    IF i > Len(s) THEN <<cur>>
    ELSE IF s[i] = sep THEN <<cur>> \o SplitFrom(s, sep, i + 1, <<>>)
    ELSE SplitFrom(s, sep, i + 1, Append(cur, s[i]))

Split(s, sep) == SplitFrom(s, sep, 1, <<>>)

\* A string is truthy in JavaScript iff it is not empty.
Truthy(s) == s # <<>>

\* Cypher toLower / on the letters modelled.
LowerChar(ch) ==
    CASE ch = "A" -> "a"
      [] ch = "B" -> "b"
      [] OTHER -> ch

toLower(s) == [i \in 1..Len(s) |-> LowerChar(s[i])]

\* Cypher: hay CONTAINS needle (the empty needle is contained in every string).
Contains(hay, needle) ==
    \E i \in 0..(Len(hay) - Len(needle)) :
        SubSeq(hay, i + 1, i + Len(needle)) = needle

\* JSON.stringify of a string: quoted, with quote, backslash and the control
\* characters escaped.
EscapeChar(ch) ==
    CASE ch = "\"" -> <<"\\", "\"">>
      [] ch = "\\" -> <<"\\", "\\">>
      [] ch = "\n" -> <<"\\", "n">>
      [] ch = "\r" -> <<"\\", "r">>
      [] ch = "\t" -> <<"\\", "t">>
      [] OTHER -> <<ch>>

RECURSIVE Escape(_)
Escape(s) == IF s = <<>> THEN <<>> ELSE EscapeChar(Head(s)) \o Escape(Tail(s))

\* A faulty variant of JSONstringify: the value as it is.
JSONstringifyRaw(v) == v.val

\* An input value of createStatement is [type |-> "string" | "number", val |->
\* its characters]; JSON.stringify gives a number's digits and a string quoted.
JSONstringify(v) ==
    IF v.type = "string" THEN <<"\"">> \o Escape(v.val) \o <<"\"">> ELSE v.val

Str(s) == [type |-> "string", val |-> s]

(***************************************************************************)
(* The backend graph: MERGE of Identifier nodes and CREATE of an edge.     *)
(***************************************************************************)
\* A faulty variant of MergeIdentifier: CREATE in the place of MERGE.
MergeAlwaysCreate(ns, v) == Append(ns, v)

\* MERGE (n:Identifier {value: v}): the node is created only when none matches.
MergeIdentifier(ns, v) ==
    IF \E i \in 1..Len(ns) : ns[i] = v THEN ns ELSE Append(ns, v)

\* The node a MERGE of v binds in ns.
NodeOf(ns, v) == CHOOSE i \in 1..Len(ns) : ns[i] = v

\* MERGE (subj ...) MERGE (obj ...): the nodes after both merges.
MergedNodes(ns, subject, object_value) ==
    MergeIdentifier(MergeIdentifier(ns, subject), object_value)

\* A faulty variant of CreateEdge: a stored edge with the same subject,
\* predicate and object is kept in the place of a new one.
CreateEdgeOnce(ns, id, subject, predicate, object_value, source_id, timestamp, created_at) ==
    LET same == {s \in stmts : /\ nodes[s.subj] = subject
                               /\ s.predicate = predicate
                               /\ s.object_value = object_value}
    IN  IF same # {} THEN CHOOSE s \in same : TRUE
        ELSE [id |-> id,
              subj |-> NodeOf(ns, subject),
              obj |-> NodeOf(ns, object_value),
              predicate |-> predicate,
              object_value |-> object_value,
              source_id |-> source_id,
              timestamp |-> timestamp,
              created_at |-> created_at]

\* CREATE (subj)-[s:STATEMENT {...}]->(obj) on the merged nodes ns.
CreateEdge(ns, id, subject, predicate, object_value, source_id, timestamp, created_at) ==
    [id |-> id,
     subj |-> NodeOf(ns, subject),
     obj |-> NodeOf(ns, object_value),
     predicate |-> predicate,
     object_value |-> object_value,
     source_id |-> source_id,
     timestamp |-> timestamp,
     created_at |-> created_at]

\* A faulty variant of randomUUID: the id handed out last, once more.
repeatedUUID == nextId

\* crypto.randomUUID(): an id never handed out before.
randomUUID == nextId + 1

\* The row a read query returns for edge s (i.value as subject, s.* as is).
Row(s) ==
    [id |-> s.id,
     subject |-> nodes[s.subj],
     predicate |-> s.predicate,
     object_value |-> s.object_value,
     source_id |-> s.source_id,
     timestamp |-> s.timestamp,
     created_at |-> s.created_at]

\* record.get("source_id") || null
OrNull(opt) == IF opt = <<>> \/ opt = << <<>> >> THEN <<>> ELSE opt

formatStatement(record) ==
    [id |-> record.id,
     subject_identifier |-> record.subject,
     predicate |-> record.predicate,
     object_value |-> Str(record.object_value),
     source_id |-> OrNull(record.source_id),
     statement_timestamp |-> record.timestamp,
     created_at |-> record.created_at]

\* The stored edges in the order of their ids.
RECURSIVE ById(_)
ById(ss) ==
    IF ss = {} THEN <<>>
    ELSE LET s == CHOOSE x \in ss : \A y \in ss : x.id <= y.id
         IN  <<s>> \o ById(ss \ {s})

(***************************************************************************)
(* Callers.  While a handler awaits a query its locals are in loc[c]; what *)
(* it returns or throws is delivered in last, with the request and the     *)
(* number of backend queries the request issued.                          *)
(***************************************************************************)
NoLocals == [data |-> <<>>]
NoOutcome == [op |-> "none", kind |-> "none"]
NoScan == [on |-> FALSE]

\* A write committed: every caller between its count query and its page
\* query has been overtaken by it.
Written(l) ==
    [d \in Callers |->
        IF pc[d] = "page" THEN [l[d] EXCEPT !.interleaved = TRUE] ELSE l[d]]

\* A faulty variant of Session: the session is not closed when a query throws.
SessionLeakOnThrow(ok, failed) ==
    <<"getSession">> \o [i \in 1..ok |-> "run"]
        \o (IF failed THEN <<"run", "throw">> ELSE <<"close">>)

\* A faulty variant of Session: a query that throws is sent a second time.
SessionRetrying(ok, failed) ==
    <<"getSession">> \o [i \in 1..ok |-> "run"]
        \o (IF failed THEN <<"run", "run", "throw">> ELSE <<>>) \o <<"close">>

\* const session = getSession(); try { ... } finally { await session.close(); }
\* What a handler does to its session and to the backend when its first ok
\* calls of session.run return and, if failed, the next one throws: runQuery
\* sends one request per call and throws on a bad response.
Session(ok, failed) ==
    <<"getSession">> \o [i \in 1..ok |-> "run"]
        \o (IF failed THEN <<"run", "throw">> ELSE <<>>) \o <<"close">>

(***************************************************************************)
(* Mutation.ingest                                                         *)
(***************************************************************************)
\* data.split("\n").filter((l) => l.trim())
IngestLines(data) == SelectSeq(Split(data, "\n"), LAMBDA l : Truthy(Trim(l)))

\* line.split(",").map((s) => s.trim())
Fields(line) == LET parts == Split(line, ",") IN [i \in 1..Len(parts) |-> Trim(parts[i])]

\* const [subject, predicate, object_value] = ...; a missing element is
\* undefined, which is falsy like the empty string.
FieldAt(fields, i) == IF i <= Len(fields) THEN fields[i] ELSE <<>>

\* A faulty variant of Accepted: the object is not looked at.
AcceptedNoObjectCheck(line) ==
    /\ Truthy(FieldAt(Fields(line), 1))
    /\ Truthy(FieldAt(Fields(line), 2))

\* if (!subject || !predicate || !object_value) continue;
Accepted(line) ==
    /\ Truthy(FieldAt(Fields(line), 1))
    /\ Truthy(FieldAt(Fields(line), 2))
    /\ Truthy(FieldAt(Fields(line), 3))

\* The lines of data for which the loop reaches session.run, in order.
AcceptedLines(data) == SelectSeq(IngestLines(data), Accepted)

\* entities.size after the subjects of the first n accepted lines were added.
EntitiesSize(lines, n) == Cardinality({FieldAt(Fields(lines[i]), 1) : i \in 1..n})

IngestResult(data, sourceName, lines, n) ==
    [op |-> "ingest", kind |-> "ok", queries |-> n, events |-> Session(n, FALSE),
     data |-> data, sourceName |-> sourceName,
     success |-> TRUE,
     message |-> <<"Ingested", n, "statements">>,
     entities_created |-> EntitiesSize(lines, n),
     statements_created |-> n]

\* A faulty variant of IngestNow: the clock is read for every line.
IngestNowPerLine(l) == clock

\* const now = new Date().toISOString(), read once before the loop.
IngestNow(l) == l.now

\* The handler up to its first await: the lines are split, now is read, and
\* the loop runs to the first accepted line; with none it returns at once.
IngestStart(c, data, sourceName) ==
    /\ pc[c] = "idle"
    /\ LET lines == AcceptedLines(data)
       IN  IF lines = <<>>
           THEN /\ last' = IngestResult(data, sourceName, lines, 0)
                /\ UNCHANGED <<pc, loc, scan>>
           ELSE /\ pc' = [pc EXCEPT ![c] = "ingest"]
                /\ loc' = [loc EXCEPT ![c] =
                              [data |-> data, sourceName |-> sourceName,
                               lines |-> lines, now |-> clock,
                               statementsCreated |-> 0]]
                /\ UNCHANGED last
    /\ UNCHANGED <<nodes, stmts, nextId, clock, scan>>

\* One pass of the loop body for the next accepted line, its query committed:
\* the merges, the new edge, statementsCreated++, entities.add(subject); after
\* the last accepted line the handler returns its result.
IngestLine(c) ==
    /\ pc[c] = "ingest"
    /\ nextId < MaxIds
    /\ LET l == loc[c]
           f == Fields(l.lines[l.statementsCreated + 1])
           subject == FieldAt(f, 1)
           predicate == FieldAt(f, 2)
           object_value == FieldAt(f, 3)
           ns == MergedNodes(nodes, subject, object_value)
           n == l.statementsCreated + 1
       IN  /\ nodes' = ns
           /\ stmts' = stmts \cup
                  {CreateEdge(ns, randomUUID, subject, predicate, object_value,
                              l.sourceName, IngestNow(l), IngestNow(l))}
           /\ nextId' = randomUUID
           /\ IF n = Len(l.lines)
              THEN /\ pc' = [pc EXCEPT ![c] = "idle"]
                   /\ last' = IngestResult(l.data, l.sourceName, l.lines, n)
                   /\ loc' = Written([loc EXCEPT ![c] = NoLocals])
              ELSE /\ loc' = Written([loc EXCEPT ![c].statementsCreated = n])
                   /\ UNCHANGED <<pc, last>>
    /\ UNCHANGED <<clock, scan>>

\* A faulty variant of IngestLineFails: a compensating delete removes the
\* statements the loop created before the error reaches the caller.
IngestLineFailsRollingBack(c) ==
    /\ pc[c] = "ingest"
    /\ pc' = [pc EXCEPT ![c] = "idle"]
    /\ stmts' = {s \in stmts : s.id <= nextId - loc[c].statementsCreated}
    /\ last' = [op |-> "ingest", kind |-> "error",
                queries |-> loc[c].statementsCreated + 1,
                events |-> Session(loc[c].statementsCreated, TRUE),
                data |-> loc[c].data, sourceName |-> loc[c].sourceName]
    /\ loc' = [loc EXCEPT ![c] = NoLocals]
    /\ UNCHANGED <<nodes, nextId, clock, scan>>

\* The query for the next accepted line fails: runQuery throws, the finally
\* block closes the session and the error reaches the caller.
IngestLineFails(c) ==
    /\ pc[c] = "ingest"
    /\ pc' = [pc EXCEPT ![c] = "idle"]
    /\ last' = [op |-> "ingest", kind |-> "error",
                queries |-> loc[c].statementsCreated + 1,
                events |-> Session(loc[c].statementsCreated, TRUE),
                data |-> loc[c].data, sourceName |-> loc[c].sourceName]
    /\ loc' = [loc EXCEPT ![c] = NoLocals]
    /\ UNCHANGED <<nodes, stmts, nextId, clock, scan>>

(***************************************************************************)
(* Mutation.createStatement and Mutation.deleteStatement                   *)
(***************************************************************************)
\* input.statement_timestamp || now: null, undefined and the empty string
\* are falsy alike, and <<>> stands for the three; <<t>> is the ISO string of
\* time t.
OrNow(opt, now) == IF opt = <<>> THEN now ELSE opt[1]

\* input.source_id || null, input.statement_timestamp || now
CreateResult(input, id, timestamp, now) ==
    [op |-> "createStatement", kind |-> "ok", queries |-> 1,
     events |-> Session(1, FALSE), input |-> input,
     result |-> [id |-> id,
                 subject_identifier |-> input.subject_identifier,
                 predicate |-> input.predicate,
                 object_value |-> input.object_value,
                 source_id |-> OrNull(input.source_id),
                 statement_timestamp |-> timestamp,
                 created_at |-> now]]

\* The handler with its query committed.  id and now are read before the
\* await, so now is any reading the clock gave up to the commit.
createStatement(c, input) ==
    /\ pc[c] = "idle"
    /\ nextId < MaxIds
    /\ \E now \in 1..clock :
         LET id == randomUUID
             timestamp == OrNow(input.statement_timestamp, now)
             object_value == JSONstringify(input.object_value)
             ns == MergedNodes(nodes, input.subject_identifier, object_value)
         IN  /\ nodes' = ns
             /\ stmts' = stmts \cup
                    {CreateEdge(ns, id, input.subject_identifier, input.predicate,
                                object_value, OrNull(input.source_id), timestamp, now)}
             /\ nextId' = id
             /\ last' = CreateResult(input, id, timestamp, now)
    /\ loc' = Written(loc)
    /\ UNCHANGED <<clock, pc, scan>>

\* The query of createStatement fails: the id is spent, nothing is stored.
createStatementFails(c, input) ==
    /\ pc[c] = "idle"
    /\ nextId < MaxIds
    /\ nextId' = randomUUID
    /\ last' = [op |-> "createStatement", kind |-> "error", queries |-> 1,
                events |-> Session(0, TRUE), input |-> input]
    /\ UNCHANGED <<nodes, stmts, clock, pc, loc, scan>>

\* A faulty variant of Deleted: the count is not looked at.
DeletedAlways(matched) == TRUE

\* MATCH ()-[s:STATEMENT {id: $id}]->() DELETE s RETURN count(s) as deleted;
\* toNumber(result.records[0]?.get("deleted")) > 0
Deleted(matched) == Cardinality(matched) > 0

DeleteMessage(deleted) == IF deleted THEN "Statement deleted" ELSE "Statement not found"

\* A faulty variant of deleteStatement: the newest Identifier is removed with
\* the statement when no statement is left on it.
deleteStatementCollecting(c, id) ==
    /\ pc[c] = "idle"
    /\ LET matched == {s \in stmts : s.id = id}
           kept == stmts \ matched
           deleted == Deleted(matched)
       IN  /\ stmts' = kept
           /\ nodes' = IF /\ nodes # <<>>
                          /\ \A s \in kept : s.subj # Len(nodes) /\ s.obj # Len(nodes)
                       THEN SubSeq(nodes, 1, Len(nodes) - 1)
                       ELSE nodes
           /\ last' = [op |-> "deleteStatement", kind |-> "ok", queries |-> 1,
                       events |-> Session(1, FALSE), id |-> id,
                       result |-> [success |-> deleted,
                                   message |-> DeleteMessage(deleted),
                                   id |-> id]]
           /\ loc' = IF matched # {} THEN Written(loc) ELSE loc
    /\ UNCHANGED <<nextId, clock, pc, scan>>

\* The handler with its query committed: the edge with the id, if any, is
\* deleted and counted.
deleteStatement(c, id) ==
    /\ pc[c] = "idle"
    /\ LET matched == {s \in stmts : s.id = id}
           deleted == Deleted(matched)
       IN  /\ stmts' = stmts \ matched
           /\ last' = [op |-> "deleteStatement", kind |-> "ok", queries |-> 1,
                       events |-> Session(1, FALSE), id |-> id,
                       result |-> [success |-> deleted,
                                   message |-> DeleteMessage(deleted),
                                   id |-> id]]
           /\ loc' = IF matched # {} THEN Written(loc) ELSE loc
    /\ UNCHANGED <<nodes, nextId, clock, pc, scan>>

deleteStatementFails(c, id) ==
    /\ pc[c] = "idle"
    /\ last' = [op |-> "deleteStatement", kind |-> "error", queries |-> 1,
                events |-> Session(0, TRUE), id |-> id]
    /\ UNCHANGED <<nodes, stmts, nextId, clock, pc, loc, scan>>

(***************************************************************************)
(* Query.statement                                                         *)
(***************************************************************************)
\* result.records[0] ? formatStatement(result.records[0]) : null
statement(c, id) ==
    /\ pc[c] = "idle"
    /\ LET records == {Row(s) : s \in {x \in stmts : x.id = id}}
       IN  last' = [op |-> "statement", kind |-> "ok", queries |-> 1,
                    events |-> Session(1, FALSE), id |-> id,
                    result |-> IF records = {} THEN <<>>
                               ELSE <<formatStatement(CHOOSE r \in records : TRUE)>>]
    /\ UNCHANGED <<nodes, stmts, nextId, clock, pc, loc, scan>>

statementFails(c, id) ==
    /\ pc[c] = "idle"
    /\ last' = [op |-> "statement", kind |-> "error", queries |-> 1,
                events |-> Session(0, TRUE), id |-> id]
    /\ UNCHANGED <<nodes, stmts, nextId, clock, pc, loc, scan>>

(***************************************************************************)
(* Query.subjects and GET /api/subjects                                    *)
(***************************************************************************)
\* The code point of a character of the values the model stores.
CodePoint(ch) ==
    CASE ch = " " -> 32 [] ch = "\"" -> 34 [] ch = "," -> 44
      [] ch = "A" -> 65 [] ch = "B" -> 66
      [] ch = "a" -> 97 [] ch = "b" -> 98 [] ch = "p" -> 112 [] ch = "q" -> 113

\* The backend's order of strings: by code point, a prefix first.
RECURSIVE StringBefore(_, _)
StringBefore(s, t) ==
    IF s = <<>> THEN t # <<>>
    ELSE IF t = <<>> THEN FALSE
    ELSE IF Head(s) # Head(t) THEN CodePoint(Head(s)) < CodePoint(Head(t))
    ELSE StringBefore(Tail(s), Tail(t))

\* A faulty variant of SubjectValues: every Identifier, whatever its edges.
IdentifierValues == {nodes[i] : i \in 1..Len(nodes)}

\* MATCH (i:Identifier)-[s:STATEMENT]->() RETURN DISTINCT i.value as subject
SubjectValues == {nodes[s.subj] : s \in stmts}

\* ORDER BY subject
OrderBy(values) ==
    CHOOSE f \in [1..Cardinality(values) -> values] :
        \A i, j \in DOMAIN f : i < j => StringBefore(f[i], f[j])

\* result.records.map((r) => r.get("subject"))
subjects(c) ==
    /\ pc[c] = "idle"
    /\ last' = [op |-> "subjects", kind |-> "ok", queries |-> 1,
                events |-> Session(1, FALSE), result |-> OrderBy(SubjectValues)]
    /\ UNCHANGED <<nodes, stmts, nextId, clock, pc, loc, scan>>

subjectsFails(c) ==
    /\ pc[c] = "idle"
    /\ last' = [op |-> "subjects", kind |-> "error", queries |-> 1,
                events |-> Session(0, TRUE)]
    /\ UNCHANGED <<nodes, stmts, nextId, clock, pc, loc, scan>>

\* { subjects, count: subjects.length }
restSubjects(c) ==
    /\ pc[c] = "idle"
    /\ LET list == OrderBy(SubjectValues)
       IN  last' = [op |-> "restSubjects", kind |-> "ok", queries |-> 1,
                    events |-> Session(1, FALSE), result |-> list,
                    count |-> Len(list)]
    /\ UNCHANGED <<nodes, stmts, nextId, clock, pc, loc, scan>>

(***************************************************************************)
(* Query.statementsBySubject, Query.statementsByPredicate and              *)
(* Query.paginatedStatements: a count query, then a page query.            *)
(***************************************************************************)
Handlers == {"statementsBySubject", "statementsByPredicate", "paginatedStatements"}

\* The edges the MATCH of handler h binds for its argument.
Matching(h, arg) ==
    CASE h = "statementsBySubject" -> {s \in stmts : nodes[s.subj] = arg}
      [] h = "statementsByPredicate" -> {s \in stmts : s.predicate = arg}
      [] h = "paginatedStatements" -> stmts

\* ORDER BY s.created_at DESC: the orders the backend may return the edges
\* in; edges with equal created_at come in any order, chosen per query.
Ordered(ss) ==
    {f \in [1..Cardinality(ss) -> ss] :
        /\ \A i, j \in DOMAIN f : i # j => f[i] # f[j]
        /\ \A i, j \in DOMAIN f : i < j => f[i].created_at >= f[j].created_at}

\* The first n rows of seq after the first offset ones (fewer when seq ends).
Window(seq, offset, n) ==
    LET rest == Len(seq) - offset
        len == IF rest < 0 THEN 0 ELSE IF rest < n THEN rest ELSE n
    IN  [i \in 1..len |-> seq[offset + i]]

\* A faulty variant of SkipLimit: one row too many.
SkipLimitOffByOne(seq, offset, limit) == Window(seq, offset, limit + 1)

\* SKIP $offset LIMIT $limit
SkipLimit(seq, offset, limit) == Window(seq, offset, limit)

\* A faulty variant of TotalCount: the count query without its filter.
TotalCountOfStore(h, arg) == Cardinality(stmts)

\* toNumber(countResult.records[0]?.get("total")) || 0
TotalCount(h, arg) == Cardinality(Matching(h, arg))

\* offset + statements.length < totalCount
HasMore(offset, n, totalCount) == offset + n < totalCount

\* The count query of handler h: totalCount is kept for the result.
PagedCount(c, h, arg, limit, offset) ==
    /\ pc[c] = "idle"
    /\ pc' = [pc EXCEPT ![c] = "page"]
    /\ loc' = [loc EXCEPT ![c] =
                  [handler |-> h, arg |-> arg, limit |-> limit, offset |-> offset,
                   totalCount |-> TotalCount(h, arg), interleaved |-> FALSE]]
    /\ UNCHANGED <<nodes, stmts, nextId, clock, last, scan>>

\* The count query fails: the handler throws and sends no page query.
PagedCountFails(c, h, arg, limit, offset) ==
    /\ pc[c] = "idle"
    /\ last' = [op |-> h, kind |-> "error", queries |-> 1,
                events |-> Session(0, TRUE), arg |-> arg,
                limit |-> limit, offset |-> offset]
    /\ UNCHANGED <<nodes, stmts, nextId, clock, pc, loc, scan>>

\* The page query and the result built from both.  The backend answers SKIP
\* and LIMIT only for non-negative integers; with others the query fails.
PagedPage(c) ==
    /\ pc[c] = "page"
    /\ loc[c].limit >= 0 /\ loc[c].offset >= 0
    /\ LET l == loc[c] IN
       \E rows \in Ordered(Matching(l.handler, l.arg)) :
         LET page == SkipLimit(rows, l.offset, l.limit)
             statements == [i \in 1..Len(page) |-> formatStatement(Row(page[i]))]
         IN  last' = [op |-> l.handler, kind |-> "ok", queries |-> 2,
                      events |-> Session(2, FALSE),
                      arg |-> l.arg, limit |-> l.limit, offset |-> l.offset,
                      interleaved |-> l.interleaved,
                      result |-> [statements |-> statements,
                                  totalCount |-> l.totalCount,
                                  hasMore |-> HasMore(l.offset, Len(statements),
                                                      l.totalCount)]]
    /\ pc' = [pc EXCEPT ![c] = "idle"]
    /\ loc' = [loc EXCEPT ![c] = NoLocals]
    /\ UNCHANGED <<nodes, stmts, nextId, clock, scan>>

\* The page query fails: the handler throws after the count query returned.
PagedPageFails(c) ==
    /\ pc[c] = "page"
    /\ last' = [op |-> loc[c].handler, kind |-> "error", queries |-> 2,
                events |-> Session(1, TRUE),
                arg |-> loc[c].arg, limit |-> loc[c].limit, offset |-> loc[c].offset]
    /\ pc' = [pc EXCEPT ![c] = "idle"]
    /\ loc' = [loc EXCEPT ![c] = NoLocals]
    /\ UNCHANGED <<nodes, stmts, nextId, clock, scan>>

(***************************************************************************)
(* Query.searchStatements and GET /api/search                              *)
(***************************************************************************)
SearchLimit == 100

\* WHERE toLower(s.object_value) CONTAINS toLower($query)
\*    OR toLower(i.value) CONTAINS toLower($query)
SearchMatches(s, query) ==
    \/ Contains(toLower(s.object_value), toLower(query))
    \/ Contains(toLower(nodes[s.subj]), toLower(query))

\* The rows a search may return: LIMIT 100 keeps any 100 of the matching
\* edges, in any order.
SearchRows(query) ==
    LET found == {s \in stmts : SearchMatches(s, query)}
        n == IF Cardinality(found) < SearchLimit THEN Cardinality(found) ELSE SearchLimit
    IN  {f \in [1..n -> found] : \A i, j \in 1..n : i # j => f[i] # f[j]}

searchStatements(c, query) ==
    /\ pc[c] = "idle"
    /\ \E rows \in SearchRows(query) :
         last' = [op |-> "searchStatements", kind |-> "ok", queries |-> 1,
                  events |-> Session(1, FALSE),
                  query |-> query, given |-> TRUE,
                  statements |-> [i \in 1..Len(rows) |-> formatStatement(Row(rows[i]))]]
    /\ UNCHANGED <<nodes, stmts, nextId, clock, pc, loc, scan>>

searchStatementsFails(c, query) ==
    /\ pc[c] = "idle"
    /\ last' = [op |-> "searchStatements", kind |-> "error", queries |-> 1,
                events |-> Session(0, TRUE), query |-> query, given |-> TRUE]
    /\ UNCHANGED <<nodes, stmts, nextId, clock, pc, loc, scan>>

\* The record GET /api/search builds of a row (source_id as it is stored).
formatRest(record) ==
    [id |-> record.id,
     subject_identifier |-> record.subject,
     predicate |-> record.predicate,
     object_value |-> Str(record.object_value),
     source_id |-> record.source_id,
     statement_timestamp |-> record.timestamp,
     created_at |-> record.created_at]

\* if (!query.q) throw new Error("Query parameter 'q' is required"): q is
\* <<>> when the parameter is missing and <<text>> when it is given.
RestRejects(q) == q = <<>> \/ ~Truthy(q[1])

\* GET /api/search answers with the query it was asked, in the same shape as
\* searchStatements, or throws before any backend query.
restSearch(c, q) ==
    /\ pc[c] = "idle"
    /\ IF RestRejects(q)
       THEN last' = [op |-> "restSearch", kind |-> "error", queries |-> 0,
                     events |-> <<"throw">>,
                     query |-> IF q = <<>> THEN <<>> ELSE q[1], given |-> q # <<>>]
       ELSE \E rows \in SearchRows(q[1]) :
              LET statements == [i \in 1..Len(rows) |-> formatRest(Row(rows[i]))]
              IN  last' = [op |-> "restSearch", kind |-> "ok", queries |-> 1,
                           events |-> Session(1, FALSE),
                           query |-> q[1], given |-> TRUE,
                           statements |-> statements, count |-> Len(statements)]
    /\ UNCHANGED <<nodes, stmts, nextId, clock, pc, loc, scan>>

(***************************************************************************)
(* Initial state: an empty graph, every caller idle, nothing delivered.    *)
(***************************************************************************)
InitStore ==
    /\ nodes = <<>>
    /\ stmts = {}
    /\ nextId = 0
    /\ clock = 1

InitCallers ==
    /\ pc = [c \in Callers |-> "idle"]
    /\ loc = [c \in Callers |-> NoLocals]
    /\ last = NoOutcome
    /\ scan = NoScan

(***************************************************************************)
(* Spec: concurrent callers of the mutations and of the read by id.        *)
(***************************************************************************)
Subjects == {<<"a">>, <<"b">>}
Predicates == {<<"p">>, <<"q">>}

CreateInputs ==
    [subject_identifier : Subjects,
     predicate : {<<"p">>},
     object_value : {Str(<<"b">>)},
     source_id : {<<>>},
     statement_timestamp : {<<>>}]

\* "a,p,b\nb,q,a" and a text with a malformed line only.
TwoLines == <<"a", ",", "p", ",", "b", "\n", "b", ",", "q", ",", "a">>
BadLine == <<"a", ",", "p">>

Init == InitStore /\ InitCallers

Next ==
    \/ \E c \in Callers, input \in CreateInputs : createStatement(c, input)
    \/ \E c \in Callers, input \in CreateInputs : createStatementFails(c, input)
    \/ \E c \in Callers, id \in 1..MaxIds : deleteStatement(c, id)
    \/ \E c \in Callers, id \in 1..MaxIds : deleteStatementFails(c, id)
    \/ \E c \in Callers, id \in 1..MaxIds : statement(c, id)
    \/ \E c \in Callers, id \in 1..MaxIds : statementFails(c, id)
    \/ \E c \in Callers, data \in {TwoLines, BadLine} :
          IngestStart(c, data, << <<"s">> >>)
    \/ \E c \in Callers : IngestLine(c)
    \/ \E c \in Callers : IngestLineFails(c)
    \/ \E c \in Callers : subjects(c)
    \/ \E c \in Callers : subjectsFails(c)
    \/ \E c \in Callers : restSubjects(c)

Spec == Init /\ [][Next]_vars

(***************************************************************************)
(* SpecIngest: one caller ingests one text into the empty store.           *)
(***************************************************************************)
TextChars == {"a", ",", " ", "\n"}

\* "a,likes,b\nbadline\nc, knows , d" (spec.md, section 8)
ExampleText ==
    <<"a", ",", "l", "i", "k", "e", "s", ",", "b", "\n",
      "b", "a", "d", "l", "i", "n", "e", "\n",
      "c", ",", " ", "k", "n", "o", "w", "s", " ", ",", " ", "d">>

\* The same triple twice, and one subject on three lines.
RepeatText ==
    <<"a", ",", "p", ",", "b", "\n", "a", ",", "p", ",", "b", "\n",
      "a", ",", "q", ",", "a">>

\* Every text of at most n characters, and the two above.
IngestTexts(n) ==
    UNION {[1..k -> TextChars] : k \in 0..n} \cup {ExampleText, RepeatText}

\* The single request of SpecIngest: any text, on the fresh store.
IngestOnce ==
    /\ last.op = "none"
    /\ \E t \in IngestTexts(MaxTextLen) : IngestStart(1, t, << <<"s">> >>)

InitIngest == InitStore /\ InitCallers

NextIngest ==
    \/ IngestOnce
    \/ IngestLine(1)
    \/ IngestLineFails(1)

SpecIngest == InitIngest /\ [][NextIngest]_vars

(***************************************************************************)
(* SpecWrite: one caller creates statements and ingests a batch while the  *)
(* clock runs.                                                             *)
(***************************************************************************)
\* new Date() gives a later reading than before.
Tick ==
    /\ clock < MaxClock
    /\ clock' = clock + 1
    /\ UNCHANGED <<nodes, stmts, nextId, pc, loc, last, scan>>

\* Inputs without a statement_timestamp and with the one of a time up to
\* MaxClock (0 is a time before the clock's first reading).
WriteInputs ==
    [subject_identifier : {<<"a">>},
     predicate : {<<"p">>},
     object_value : {Str(<<"b">>)},
     source_id : {<<>>},
     statement_timestamp : {<<>>} \cup {<<t>> : t \in 0..MaxClock}]

\* "a,p,b\na,p,b": the same triple on two lines.
DupLines == <<"a", ",", "p", ",", "b", "\n", "a", ",", "p", ",", "b">>

BatchName == << <<"s">> >>

\* The batch is ingested once.
IngestBatch ==
    /\ \A s \in stmts : s.source_id # BatchName
    /\ IngestStart(1, DupLines, BatchName)

NextWrite ==
    \/ \E input \in WriteInputs : createStatement(1, input)
    \/ IngestBatch
    \/ IngestLine(1)
    \/ Tick

SpecWrite == Init /\ [][NextWrite]_vars

(***************************************************************************)
(* Stores at rest: the graphs that committed create queries leave behind.  *)
(***************************************************************************)
\* The graph after the create query of createStatement or of ingest ran with
\* the parameters in on the graph st.
Committed(st, in) ==
    LET ns == MergedNodes(st.nodes, in.subject, in.object_value)
    IN  [nodes |-> ns,
         stmts |-> st.stmts \cup
             {CreateEdge(ns, Cardinality(st.stmts) + 1, in.subject, in.predicate,
                         in.object_value, in.source_id, in.timestamp, in.created_at)},
         clock |-> in.created_at]

\* The graphs after at most n create queries with parameters among
\* params[time], the clock never running backwards.
RECURSIVE StoresUpTo(_, _)
StoresUpTo(n, params) ==
    IF n = 0 THEN {[nodes |-> <<>>, stmts |-> {}, clock |-> 1]}
    ELSE LET prev == StoresUpTo(n - 1, params)
         IN  prev \cup
             UNION {UNION {{Committed(st, in) : in \in params[t]} :
                              t \in st.clock..MaxClock} : st \in prev}

InitStatic(params) ==
    /\ \E st \in StoresUpTo(MaxStored, params) :
          /\ nodes = st.nodes
          /\ stmts = st.stmts
          /\ nextId = Cardinality(st.stmts)
          /\ clock = st.clock
    /\ InitCallers

(***************************************************************************)
(* SpecPage: one caller reads a store at rest: either one page of any      *)
(* handler, or the pages of one subject one after the other.               *)
(***************************************************************************)
\* The create queries of ingest lines "a,p,b", "a,q,b" and "b,p,b" at each time.
PageParams ==
    [t \in 1..MaxClock |->
        {[subject |-> sp[1], predicate |-> sp[2], object_value |-> <<"b">>,
          source_id |-> << <<"s">> >>, timestamp |-> t, created_at |-> t] :
            sp \in {<< <<"a">>, <<"p">> >>, << <<"a">>, <<"q">> >>,
                    << <<"b">>, <<"p">> >>}}]

PageArgs(h) ==
    CASE h = "statementsBySubject" -> Subjects
      [] h = "statementsByPredicate" -> Predicates
      [] h = "paginatedStatements" -> {<<>>}

\* The client starts reading the statements of a subject in pages of limit.
ScanStart(identifier, limit) ==
    /\ ~scan.on
    /\ last.op = "none" /\ pc[1] = "idle"
    /\ scan' = [on |-> TRUE, done |-> FALSE, identifier |-> identifier,
                limit |-> limit, offset |-> 0, got |-> <<>>, more |-> <<>>]
    /\ UNCHANGED <<nodes, stmts, nextId, clock, pc, loc, last>>

\* It asks for the page at its offset,
ScanRequest ==
    /\ scan.on /\ ~scan.done
    /\ IF last.op = "none" THEN TRUE ELSE last.offset # scan.offset
    /\ PagedCount(1, "statementsBySubject", scan.identifier, scan.limit, scan.offset)

\* keeps what it is returned and moves on by limit; the page without more is
\* the last one.
ScanTake ==
    /\ scan.on /\ ~scan.done
    /\ pc[1] = "idle" /\ last.op = "statementsBySubject" /\ last.offset = scan.offset
    /\ scan' = [scan EXCEPT !.offset = @ + scan.limit,
                            !.got = @ \o last.result.statements,
                            !.more = Append(@, last.result.hasMore),
                            !.done = ~last.result.hasMore]
    /\ UNCHANGED <<nodes, stmts, nextId, clock, pc, loc, last>>

\* A single page of any handler.
OnePage ==
    /\ ~scan.on /\ last.op = "none"
    /\ \E h \in Handlers, limit \in 0..MaxLimit, offset \in 0..MaxOffset :
          \E arg \in PageArgs(h) : PagedCount(1, h, arg, limit, offset)

InitPage == InitStatic(PageParams)

NextPage ==
    \/ \E identifier \in Subjects, limit \in 1..MaxLimit : ScanStart(identifier, limit)
    \/ ScanRequest
    \/ ScanTake
    \/ OnePage
    \/ PagedPage(1)

SpecPage == InitPage /\ [][NextPage]_vars

(***************************************************************************)
(* SpecRace: one caller pages through the store while another one writes.  *)
(***************************************************************************)
\* The caller that reads and the caller that writes.
Reader == CHOOSE c \in Callers : \A d \in Callers : c <= d
Writers == {CHOOSE c \in Callers : c # Reader}

RaceOffsets == {0, 1}
RaceInputs == {input \in CreateInputs : input.subject_identifier = <<"a">>}
RaceArgs(h) ==
    CASE h = "statementsBySubject" -> {<<"a">>}
      [] h = "statementsByPredicate" -> {<<"p">>}
      [] h = "paginatedStatements" -> {<<>>}

NextRace ==
    \/ \E c \in Writers, input \in RaceInputs : createStatement(c, input)
    \/ \E c \in Writers, id \in 1..MaxIds : deleteStatement(c, id)
    \/ \E c \in Writers : IngestStart(c, TwoLines, << <<"s">> >>)
    \/ \E c \in Writers : IngestLine(c)
    \/ \E h \in Handlers, limit \in 1..MaxLimit, offset \in RaceOffsets :
          \E arg \in RaceArgs(h) : PagedCount(Reader, h, arg, limit, offset)
    \/ PagedPage(Reader)

SpecRace == Init /\ [][NextRace]_vars

(***************************************************************************)
(* SpecSearch: one search, by either entry point, of a store at rest.      *)
(***************************************************************************)
\* The create queries of ingest lines with object b or BA and of
\* createStatement with object value "b", for subjects a and Ab.
SearchParams ==
    [t \in 1..MaxClock |->
        IF t > 1 THEN {}
        ELSE {[subject |-> subj, predicate |-> <<"p">>, object_value |-> obj,
               source_id |-> <<>>, timestamp |-> t, created_at |-> t] :
                 subj \in {<<"a">>, <<"A", "b">>},
                 obj \in {<<"b">>, <<"B", "A">>, JSONstringify(Str(<<"b">>))}}]

SearchQueries(n) == UNION {[1..k -> {"a", "A", "b"}] : k \in 0..n}

InitSearch == InitStatic(SearchParams)

\* The single request of SpecSearch.
SearchOnce(A) == last.op = "none" /\ A

NextSearch ==
    \/ \E query \in SearchQueries(MaxQueryLen) : SearchOnce(searchStatements(1, query))
    \/ \E query \in SearchQueries(MaxQueryLen) : SearchOnce(restSearch(1, <<query>>))
    \/ SearchOnce(restSearch(1, <<>>))

SpecSearch == InitSearch /\ [][NextSearch]_vars

(***************************************************************************)
(* SpecOnce: one request of any operation on a store at rest; the backend  *)
(* may fail any query.                                                     *)
(***************************************************************************)
\* The create queries of the ingest lines "a,p,b" and "b,q,a", all at the
\* clock's first reading.
OnceParams ==
    [t \in 1..MaxClock |->
        IF t > 1 THEN {}
        ELSE {[subject |-> spo[1], predicate |-> spo[2], object_value |-> spo[3],
               source_id |-> << <<"s">> >>, timestamp |-> t, created_at |-> t] :
                 spo \in {<< <<"a">>, <<"p">>, <<"b">> >>,
                          << <<"b">>, <<"q">>, <<"a">> >>}}]

InitOnce == InitStatic(OnceParams)

\* The single request of SpecOnce.
OneRequest(A) == last.op = "none" /\ A

\* limit and offset as the caller gives them, negative ones included.
OnceLimits == -1..MaxLimit
OnceOffsets == -1..1

NextOnce ==
    \/ OneRequest(subjects(1))
    \/ OneRequest(subjectsFails(1))
    \/ OneRequest(restSubjects(1))
    \/ \E id \in 1..MaxIds : OneRequest(statement(1, id))
    \/ \E id \in 1..MaxIds : OneRequest(statementFails(1, id))
    \/ \E h \in Handlers, limit \in OnceLimits, offset \in OnceOffsets :
          \E arg \in PageArgs(h) : OneRequest(PagedCount(1, h, arg, limit, offset))
    \/ \E h \in Handlers, limit \in OnceLimits, offset \in OnceOffsets :
          \E arg \in PageArgs(h) : OneRequest(PagedCountFails(1, h, arg, limit, offset))
    \/ PagedPage(1)
    \/ PagedPageFails(1)
    \/ \E query \in SearchQueries(1) : OneRequest(searchStatements(1, query))
    \/ \E query \in SearchQueries(1) : OneRequest(searchStatementsFails(1, query))
    \/ \E query \in SearchQueries(1) : OneRequest(restSearch(1, <<query>>))
    \/ OneRequest(restSearch(1, <<>>))
    \/ \E input \in CreateInputs : OneRequest(createStatement(1, input))
    \/ \E input \in CreateInputs : OneRequest(createStatementFails(1, input))
    \/ \E id \in 1..MaxIds : OneRequest(deleteStatement(1, id))
    \/ \E id \in 1..MaxIds : OneRequest(deleteStatementFails(1, id))
    \/ \E data \in {TwoLines, BadLine} : OneRequest(IngestStart(1, data, << <<"s">> >>))
    \/ IngestLine(1)
    \/ IngestLineFails(1)

SpecOnce == InitOnce /\ [][NextOnce]_vars

(***************************************************************************)
(* SpecDelete: callers delete statements of a store at rest, each handler  *)
(* taken in its two steps: the query, and after the await the return.      *)
(***************************************************************************)
\* A faulty variant of DeleteQuery: the edge is matched and counted, and kept.
DeleteQueryKeeping(c, id) ==
    /\ pc[c] = "idle"
    /\ pc' = [pc EXCEPT ![c] = "delete"]
    /\ loc' = [loc EXCEPT ![c] = [id |-> id, matched |-> {s \in stmts : s.id = id}]]
    /\ UNCHANGED <<nodes, stmts, nextId, clock, last, scan>>

\* deleteStatement up to its await: the query is committed, the handler holds
\* its result.
DeleteQuery(c, id) ==
    /\ pc[c] = "idle"
    /\ LET matched == {s \in stmts : s.id = id}
       IN  /\ stmts' = stmts \ matched
           /\ loc' = [loc EXCEPT ![c] = [id |-> id, matched |-> matched]]
    /\ pc' = [pc EXCEPT ![c] = "delete"]
    /\ UNCHANGED <<nodes, nextId, clock, last, scan>>

\* deleteStatement after its await: the result is built and returned.
DeleteReturn(c) ==
    /\ pc[c] = "delete"
    /\ LET deleted == Deleted(loc[c].matched)
       IN  last' = [op |-> "deleteStatement", kind |-> "ok", queries |-> 1,
                    events |-> Session(1, FALSE), id |-> loc[c].id,
                    result |-> [success |-> deleted,
                                message |-> DeleteMessage(deleted),
                                id |-> loc[c].id]]
    /\ pc' = [pc EXCEPT ![c] = "idle"]
    /\ loc' = [loc EXCEPT ![c] = NoLocals]
    /\ UNCHANGED <<nodes, stmts, nextId, clock, scan>>

NextDelete ==
    \/ \E c \in Callers, id \in 1..MaxStored : DeleteQuery(c, id)
    \/ \E c \in Callers : DeleteReturn(c)

SpecDelete == InitOnce /\ [][NextDelete]_vars

(***************************************************************************)
(* What the claims say of ingest, stated without the handler's helpers.    *)
(***************************************************************************)
\* s without its leading and trailing whitespace.
Stripped(s) ==
    LET inked == {i \in 1..Len(s) : s[i] \notin WhiteSpace}
    IN  IF inked = {} THEN <<>>
        ELSE SubSeq(s, CHOOSE i \in inked : \A j \in inked : i <= j,
                       CHOOSE i \in inked : \A j \in inked : i >= j)

\* The comma-separated fields of a line, stripped.
StrippedFields(line) ==
    LET commas == {i \in 1..Len(line) : line[i] = ","}
        cuts == {0} \cup commas \cup {Len(line) + 1}
        starts == cuts \ {Len(line) + 1}
        NextCut(i) == CHOOSE j \in cuts : j > i /\ \A k \in cuts : k > i => j <= k
        Before(i) == Cardinality({j \in starts : j < i})
        StartAt(n) == CHOOSE i \in starts : Before(i) = n - 1
    IN  [n \in 1..Cardinality(starts) |->
            Stripped(SubSeq(line, StartAt(n) + 1, NextCut(StartAt(n)) - 1))]

\* The lines of a text.
TextLines(data) ==
    LET breaks == {i \in 1..Len(data) : data[i] = "\n"}
        cuts == {0} \cup breaks \cup {Len(data) + 1}
        starts == cuts \ {Len(data) + 1}
        NextCut(i) == CHOOSE j \in cuts : j > i /\ \A k \in cuts : k > i => j <= k
        Before(i) == Cardinality({j \in starts : j < i})
        StartAt(n) == CHOOSE i \in starts : Before(i) = n - 1
    IN  [n \in 1..Cardinality(starts) |->
            SubSeq(data, StartAt(n) + 1, NextCut(StartAt(n)) - 1)]

\* A line whose first three fields are all non-empty.
FirstThreeNonEmpty(line) ==
    LET f == StrippedFields(line)
    IN  Len(f) >= 3 /\ f[1] # <<>> /\ f[2] # <<>> /\ f[3] # <<>>

\* A line with at least three non-empty fields, wherever they stand.
ThreeNonEmptyFields(line) ==
    LET f == StrippedFields(line)
    IN  Cardinality({i \in 1..Len(f) : f[i] # <<>>}) >= 3

\* The (subject, predicate, object) of the lines of data that satisfy Takes.
Triples(data, Takes(_)) ==
    LET taken == SelectSeq(TextLines(data), Takes)
    IN  [i \in 1..Len(taken) |->
            <<StrippedFields(taken[i])[1], StrippedFields(taken[i])[2],
              StrippedFields(taken[i])[3]>>]

\* The (subject, predicate, object) of the stored statements, oldest id first.
StoredTriples ==
    LET ss == ById(stmts)
    IN  [i \in 1..Len(ss) |-> <<nodes[ss[i].subj], ss[i].predicate, ss[i].object_value>>]

\* What an ingest of data that took the lines satisfying Takes must have
\* stored and returned.
IngestReports(data, Takes(_)) ==
    LET want == Triples(data, Takes)
    IN  /\ last.kind = "ok"
        /\ StoredTriples = want
        /\ last.success = TRUE
        /\ last.statements_created = Len(want)
        /\ last.entities_created = Cardinality({want[i][1] : i \in 1..Len(want)})
        /\ last.message = <<"Ingested", last.statements_created, "statements">>

IngestReturned == last.op = "ingest" /\ last.kind = "ok"

\* C6 (as amended): without a backend failure, ingest stores one statement
\* per non-blank line whose FIRST three comma-separated fields are non-empty
\* after trimming (subject, predicate, object trimmed; later fields are
\* ignored), skips every other line, and returns success, statements_created
\* = that number of lines, entities_created = their distinct subjects, and
\* the message "Ingested N statements".
C6_IngestTakesFirstThreeFields ==
    IngestReturned => IngestReports(last.data, FirstThreeNonEmpty)

\* C6 as stated: the accepted lines are those with three non-empty fields,
\* the skipped ones exactly those with fewer than three non-empty fields.
C6_IngestTakesAnyThreeFields ==
    IngestReturned => IngestReports(last.data, ThreeNonEmptyFields)

\* The example of the spec was ingested: two statements, two subjects, the
\* malformed line skipped.
C6_Witness ==
    /\ IngestReturned
    /\ last.data = ExampleText
    /\ last.statements_created = 2
    /\ last.entities_created = 2
    /\ Len(TextLines(last.data)) = 3

IngestFailed == last.op = "ingest" /\ last.kind = "error"

\* C7: when the backend call for the k-th accepted line fails, the statements
\* and identifiers of accepted lines 1..k-1 stay stored, nothing is stored for
\* line k or a later line, and the ingest issues no further backend call.
C7_IngestNotAtomic ==
    IngestFailed =>
        LET want == Triples(last.data, FirstThreeNonEmpty)
            k == last.queries
        IN  /\ k \in 1..Len(want)
            /\ StoredTriples = SubSeq(want, 1, k - 1)
            /\ \A i \in 1..(k - 1) :
                  /\ \E n \in 1..Len(nodes) : nodes[n] = want[i][1]
                  /\ \E n \in 1..Len(nodes) : nodes[n] = want[i][3]
            /\ pc[1] = "idle"

\* An ingest failed on its third accepted line: two statements stay stored.
C7_Witness ==
    /\ IngestFailed
    /\ last.queries = 3
    /\ Cardinality(stmts) = 2

\* C8 as stated: when a backend error interrupts the loop after j lines, the
\* outcome delivered to the caller reports statements_created = j.
C8_FailedIngestReportsCount ==
    IngestFailed =>
        /\ "statements_created" \in DOMAIN last
        /\ last.statements_created = Cardinality(stmts)

(***************************************************************************)
(* What the claims say of createStatement, deleteStatement and statement.  *)
(***************************************************************************)
StoredIds == {s.id : s \in stmts}

\* C1 as stated: statement(id), asked right after createStatement returned
\* id for the input (s, p, v) with v a string, returns a record with
\* subject_identifier = s, predicate = p and object_value = v.
C1_RoundTrip ==
    [][\A c \in Callers, id \in 1..MaxIds :
          ( /\ last.op = "createStatement" /\ last.kind = "ok"
            /\ last.input.object_value.type = "string"
            /\ last.result.id = id
            /\ statement(c, id) )
          => /\ last'.result # <<>>
             /\ last'.result[1].subject_identifier = last.input.subject_identifier
             /\ last'.result[1].predicate = last.input.predicate
             /\ last'.result[1].object_value = last.input.object_value]_vars

\* The Identifier nodes with value v.
NodesWith(v) == {i \in 1..Len(nodes) : nodes[i] = v}

\* C2: whatever createStatement, ingest and deleteStatement requests of
\* concurrent callers interleave, no two Identifier nodes have the same
\* value, and the subject of every statement created has exactly one node.
C2_IdentifierUnique ==
    /\ \A i, j \in 1..Len(nodes) : nodes[i] = nodes[j] => i = j
    /\ \A s \in stmts : Cardinality(NodesWith(nodes[s.subj])) = 1
    /\ (last.op = "createStatement" /\ last.kind = "ok")
          => Cardinality(NodesWith(last.input.subject_identifier)) = 1
    /\ (last.op = "ingest" /\ last.kind = "ok")
          => LET took == Triples(last.data, FirstThreeNonEmpty)
             IN  \A i \in 1..Len(took) : Cardinality(NodesWith(took[i][1])) = 1

\* A createStatement for subject a returned while another caller is in the
\* middle of an ingest that already stored a statement of subject a, and the
\* two statements share their subject node.
C2_Witness ==
    /\ last.op = "createStatement" /\ last.kind = "ok"
    /\ \E c \in Callers : pc[c] = "ingest" /\ loc[c].statementsCreated = 1
    /\ Cardinality(stmts) = 2
    /\ \A s \in stmts : nodes[s.subj] = last.input.subject_identifier
    /\ Cardinality({s.subj : s \in stmts}) = 1

\* C4: deleteStatement(id) returns success with "Statement deleted" exactly
\* when a statement with that id was stored, and it is then removed;
\* otherwise it returns no success with "Statement not found"; id is echoed
\* either way.  An id that was handed out and is not stored is never stored
\* again, and statement(id) returns null exactly for an id not stored: so
\* after a successful delete every statement(id) returns null and a second
\* deleteStatement(id) returns no success, as a normal result.
C4_DeleteSemantics ==
    [][/\ \A c \in Callers, id \in 1..MaxIds :
            deleteStatement(c, id) =>
               /\ last'.kind = "ok"
               /\ last'.result.success = (id \in StoredIds)
               /\ last'.result.message =
                     (IF id \in StoredIds THEN "Statement deleted"
                      ELSE "Statement not found")
               /\ last'.result.id = id
               /\ stmts' = {s \in stmts : s.id # id}
       /\ \A id \in 1..nextId : id \notin StoredIds => id \notin StoredIds'
       /\ \A c \in Callers, id \in 1..MaxIds :
            statement(c, id) => (last'.result = <<>>) = (id \notin StoredIds)]_vars

\* A delete succeeded: the statement is gone and its id was handed out.
C4_Witness ==
    /\ last.op = "deleteStatement" /\ last.kind = "ok"
    /\ last.result.success
    /\ last.result.message = "Statement deleted"
    /\ last.id \in 1..nextId
    /\ last.id \notin StoredIds

(***************************************************************************)
(* What the claims say of the paged reads.                                 *)
(***************************************************************************)
\* The stored statements the filter of handler h selects for arg.
Selected(h, arg) ==
    {s \in stmts : /\ h = "statementsBySubject" => nodes[s.subj] = arg
                   /\ h = "statementsByPredicate" => s.predicate = arg}

Min(a, b) == IF a < b THEN a ELSE b
Max(a, b) == IF a > b THEN a ELSE b

\* out is what a serial execution of the paged read returns on the store.
IsSerialPage(out) ==
    LET want == Selected(out.op, out.arg)
        total == Cardinality(want)
        got == out.result.statements
    IN  /\ out.result.totalCount = total
        /\ Len(got) = Min(out.limit, Max(0, total - out.offset))
        /\ \A i \in 1..Len(got) : \E s \in want : got[i] = formatStatement(Row(s))
        /\ out.result.hasMore = (out.offset + Len(got) < total)
        /\ total = 0 => /\ got = <<>>
                        /\ out.result.totalCount = 0
                        /\ ~out.result.hasMore

PageReturned == last.op \in Handlers /\ last.kind = "ok"

\* C3 as stated: on a store at rest, the pages of statementsBySubject at
\* offsets 0, limit, 2*limit, ... up to the page without more, put one after
\* the other, are the statements of the subject in created_at-descending
\* order, each exactly once; hasMore is true on every page but the last.
C3_PagesPartition ==
    (scan.on /\ scan.done) =>
        LET want == Selected("statementsBySubject", scan.identifier)
            got == scan.got
        IN  /\ Len(got) = Cardinality(want)
            /\ {got[i].id : i \in 1..Len(got)} = {s.id : s \in want}
            /\ \A i, j \in 1..Len(got) : i < j => got[i].created_at >= got[j].created_at
            /\ \A i \in 1..Len(scan.more) : scan.more[i] = (i < Len(scan.more))

\* C10: on a store at rest each paged read returns totalCount = the number
\* of stored statements its filter selects, only selected statements,
\* min(limit, max(0, totalCount - offset)) of them, and hasMore = (offset +
\* len(statements) < totalCount); with nothing selected it returns no
\* statement, totalCount 0 and no more.
C10_PageOnStaticStore == PageReturned => IsSerialPage(last)

\* The last page, cut short: by predicate, two of the three stored statements
\* selected, one skipped, the one left returned although two were asked for.
C10_Witness ==
    /\ PageReturned
    /\ last.op = "statementsByPredicate"
    /\ last.offset = 1 /\ last.limit = 2
    /\ Len(last.result.statements) = 1
    /\ ~last.result.hasMore
    /\ last.result.totalCount = 2
    /\ Cardinality(stmts) = 3

\* C9: a paged read whose count query and page query no write of another
\* caller came between returns what a serial execution returns on the store
\* (a write in between can yield what no serial execution returns, see
\* C9_Witness).
C9_SerialUnlessInterleaved ==
    [][\A c \in Callers :
          (PagedPage(c) /\ ~loc[c].interleaved) => IsSerialPage(last')]_vars

\* A write came between the two queries and the result says there is more
\* although the page is not full: no store gives that to a serial read.
C9_Witness ==
    /\ PageReturned
    /\ last.interleaved
    /\ last.result.hasMore
    /\ Len(last.result.statements) < last.limit
    /\ last.offset + Len(last.result.statements) < last.result.totalCount

(***************************************************************************)
(* What the claims say of search.                                          *)
(***************************************************************************)
Folded(s) ==
    [i \in 1..Len(s) |-> IF s[i] = "A" THEN "a" ELSE IF s[i] = "B" THEN "b" ELSE s[i]]

IsSubstring(part, whole) ==
    \E k \in 0..Len(whole) :
        /\ k + Len(part) <= Len(whole)
        /\ \A i \in 1..Len(part) : whole[k + i] = part[i]

\* Statement s is one a search for q must find.
Sought(s, q) ==
    \/ IsSubstring(Folded(q), Folded(s.object_value))
    \/ IsSubstring(Folded(q), Folded(nodes[s.subj]))

SearchAsked == last.op \in {"searchStatements", "restSearch"} /\ last.given

\* A search that returned has at most 100 statements, each stored and
\* sought, none twice, and all the sought ones when at most 100 are stored.
SearchContainment ==
    (SearchAsked /\ last.kind = "ok") =>
        LET got == last.statements
        IN  /\ Len(got) <= 100
            /\ \A i \in 1..Len(got) :
                  \E s \in stmts : /\ s.id = got[i].id
                                   /\ Sought(s, last.query)
                                   /\ got[i].subject_identifier = nodes[s.subj]
                                   /\ got[i].object_value = Str(s.object_value)
            /\ \A i, j \in 1..Len(got) : got[i].id = got[j].id => i = j
            /\ Cardinality(stmts) <= 100 =>
                  \A s \in stmts : Sought(s, last.query) =>
                      \E i \in 1..Len(got) : got[i].id = s.id

\* A search for the empty text is no error and returns min(100, number of
\* stored statements) statements.
EmptySearchAnswered ==
    (SearchAsked /\ last.query = <<>>) =>
        /\ last.kind = "ok"
        /\ Len(last.statements) = Min(100, Cardinality(stmts))

\* C5 as stated: SearchContainment, and EmptySearchAnswered on every search
\* entry point.
C5_SearchContainment == SearchContainment /\ EmptySearchAnswered

(***************************************************************************)
(* What the claims say of ids, of the graph and of listSubjects.           *)
(***************************************************************************)
\* C11: the ids of the stored statements are pairwise distinct, every one of
\* them was handed out (the ids handed out so far are 1..nextId), and an id
\* given to a new statement was never handed out before, whether or not the
\* statement that held it is still stored.
C11_StatementIdsUnique ==
    [][/\ \A s, t \in stmts' : s.id = t.id => s = t
       /\ \A s \in stmts' : s.id \in 1..nextId'
       /\ nextId' >= nextId
       /\ \A s \in stmts' \ stmts : s.id \notin 1..nextId]_vars

\* A statement was created after the statement with an earlier id was
\* deleted: it has an id of its own.
C11_Witness ==
    /\ last.op = "createStatement" /\ last.kind = "ok"
    /\ last.result.id > 1
    /\ last.result.id \in StoredIds
    /\ \E id \in 1..nextId : id < last.result.id /\ id \notin StoredIds

\* The JSON text of a string without characters to escape.
Quoted(text) == <<"\"">> \o text \o <<"\"">>

\* C15: every statement goes from one Identifier to one Identifier whose
\* value is the statement's object_value; createStatement stores the JSON
\* text of its input value and ingest the trimmed third field of the line,
\* so the same text v given to both ends on two different object
\* Identifiers.
C15_ObjectNodeMatches ==
    [][/\ \A s \in stmts' :
            /\ s.subj \in 1..Len(nodes') /\ s.obj \in 1..Len(nodes')
            /\ nodes'[s.obj] = s.object_value
       /\ \A c \in Callers, input \in CreateInputs :
            createStatement(c, input) =>
               \A s \in stmts' \ stmts :
                  /\ input.object_value.type = "string"
                        => s.object_value = Quoted(input.object_value.val)
                  /\ nodes'[s.subj] = input.subject_identifier
       /\ \A c \in Callers :
            IngestLine(c) =>
               \A s \in stmts' \ stmts :
                  LET want == Triples(loc[c].data, FirstThreeNonEmpty)
                  IN  /\ s.object_value = want[loc[c].statementsCreated + 1][3]
                      /\ nodes'[s.subj] = want[loc[c].statementsCreated + 1][1]
       /\ \A s, t \in stmts' :
            (s.object_value = Quoted(t.object_value)) => s.obj # t.obj]_vars

\* createStatement was given the string b and an ingest line the object b:
\* the two statements end on different Identifiers, "b" with quotes and b.
C15_Witness ==
    \E s, t \in stmts :
        /\ s.source_id = <<>> /\ t.source_id = << <<"s">> >>
        /\ t.object_value = <<"b">>
        /\ s.object_value = <<"\"", "b", "\"">>
        /\ s.obj # t.obj
        /\ nodes[s.obj] = s.object_value /\ nodes[t.obj] = t.object_value

\* C17: no step removes or changes an Identifier; deleteStatement(id) changes
\* nothing but the statement with that id, which it removes; and a stored
\* statement is either stored unchanged after a step or not stored at all.
C17_FrameOfWrites ==
    [][/\ Len(nodes') >= Len(nodes)
       /\ \A i \in 1..Len(nodes) : nodes'[i] = nodes[i]
       /\ \A c \in Callers, id \in 1..MaxIds :
            deleteStatement(c, id) =>
               /\ nodes' = nodes
               /\ stmts' = {s \in stmts : s.id # id}
               /\ nextId' = nextId
       /\ \A s \in stmts : s \in stmts' \/ (\A t \in stmts' : t.id # s.id)]_vars

\* A delete left an Identifier without any statement on it.
C17_Witness ==
    /\ last.op = "deleteStatement" /\ last.kind = "ok" /\ last.result.success
    /\ last.id \notin StoredIds
    /\ \E i \in 1..Len(nodes) : \A s \in stmts : s.subj # i /\ s.obj # i

\* s comes before t in the order of strings.
Precedes(s, t) ==
    \E k \in 0..Len(s) :
        /\ k <= Len(t)
        /\ \A i \in 1..k : s[i] = t[i]
        /\ IF k = Len(s) THEN k < Len(t)
           ELSE k < Len(t) /\ CodePoint(s[k + 1]) < CodePoint(t[k + 1])

\* C18: listSubjects (Query.subjects and GET /api/subjects) returns in
\* ascending order, each once, exactly the values that are the subject of a
\* stored statement.
C18_ListSubjects ==
    [][\A c \in Callers :
          (subjects(c) \/ restSubjects(c)) =>
             LET got == last'.result
             IN  /\ last'.kind = "ok"
                 /\ \A i, j \in 1..Len(got) : i < j => Precedes(got[i], got[j])
                 /\ {got[i] : i \in 1..Len(got)} =
                       {v \in {nodes[n] : n \in 1..Len(nodes)} :
                           \E s \in stmts : nodes[s.subj] = v}]_vars

\* The list is b alone while a is still an Identifier: a is the object of a
\* statement and the statement it was the subject of is deleted.
C18_Witness ==
    /\ last.op = "subjects" /\ last.kind = "ok"
    /\ last.result = << <<"b">> >>
    /\ \E i \in 1..Len(nodes) : nodes[i] = <<"a">>
    /\ \A s \in stmts : nodes[s.subj] = <<"b">> /\ nodes[s.obj] = <<"a">>
    /\ stmts # {} /\ nextId > Cardinality(stmts)

(***************************************************************************)
(* What the claims say of the statements a write creates.                  *)
(***************************************************************************)
\* The statements a step stores.
Created == stmts' \ stmts

\* C12: a createStatement that succeeds and an accepted ingest line each
\* store exactly one more statement, with an id no stored statement has and
\* with every stored statement kept, whether or not a statement with the
\* same subject, predicate and object is stored already.
C12_NoTripleDeduplication ==
    [][(\/ \E input \in WriteInputs : createStatement(1, input)
        \/ IngestLine(1))
       => /\ Cardinality(stmts') = Cardinality(stmts) + 1
          /\ stmts \subseteq stmts'
          /\ \A s \in Created : s.id \notin StoredIds]_vars

\* The batch with the same triple on two lines was ingested: two statements
\* with that triple and two ids.
C12_Witness ==
    /\ last.op = "ingest" /\ last.kind = "ok" /\ last.statements_created = 2
    /\ \E s, t \in stmts :
          /\ s.id # t.id
          /\ s.subj = t.subj /\ s.predicate = t.predicate
          /\ s.object_value = t.object_value
          /\ s.source_id = BatchName /\ t.source_id = BatchName

\* C19: createStatement stores and returns statement_timestamp = the input's
\* when it has one and = created_at when it has none; the statements of one
\* ingest call all have one value for statement_timestamp and created_at, no
\* later than the first line's query, and source_id = sourceName.
C19_Timestamps ==
    [][/\ \A input \in WriteInputs :
            createStatement(1, input) =>
               \A s \in Created :
                  /\ input.statement_timestamp # <<>>
                        => s.timestamp = input.statement_timestamp[1]
                  /\ input.statement_timestamp = <<>>
                        => s.timestamp = s.created_at
                  /\ last'.result.statement_timestamp = s.timestamp
                  /\ last'.result.created_at = s.created_at
       /\ IngestLine(1) =>
            \A s \in Created :
               /\ s.source_id = loc[1].sourceName
               /\ s.timestamp = s.created_at
               /\ s.created_at <= clock
               /\ \A t \in stmts :
                     t.source_id = s.source_id =>
                        /\ t.timestamp = s.timestamp
                        /\ t.created_at = s.created_at]_vars

\* The clock moved between the two lines of the batch, and both statements
\* carry the reading taken before the first.
C19_Witness ==
    /\ last.op = "ingest" /\ last.kind = "ok" /\ last.statements_created = 2
    /\ clock > 1
    /\ \A s \in stmts : s.source_id = BatchName /\ s.created_at = 1 /\ s.timestamp = 1
    /\ Cardinality(stmts) = 2

(***************************************************************************)
(* What the claims say of sessions, backend queries and errors.            *)
(***************************************************************************)
\* The number of events e in a request's events.
Count(events, e) == Cardinality({i \in 1..Len(events) : events[i] = e})

Answered == last.op # "none"

\* C13 as stated: a paged read given a negative limit or offset, and a
\* search given no search term, end in an error without any backend query.
C13_InvalidArgumentBeforeBackend ==
    /\ \A c \in Callers :
          pc[c] = "page" => loc[c].limit >= 0 /\ loc[c].offset >= 0
    /\ (Answered /\ last.op \in Handlers /\ (last.limit < 0 \/ last.offset < 0))
          => last.kind = "error" /\ Count(last.events, "run") = 0
    /\ (Answered /\ last.op = "restSearch" /\ ~last.given)
          => last.kind = "error" /\ Count(last.events, "run") = 0

\* C14: whatever the outcome of a request, the session it acquired was
\* closed once, after its last backend call and before the outcome is
\* delivered; every request that reaches the backend acquires one session.
C14_SessionReleased ==
    Answered =>
        LET e == last.events
        IN  /\ Count(e, "getSession") = Count(e, "close")
            /\ Count(e, "getSession") <= 1
            /\ Count(e, "run") > 0 => Count(e, "getSession") = 1
            /\ Count(e, "getSession") = 1 =>
                  /\ e[1] = "getSession"
                  /\ e[Len(e)] = "close"
            /\ last.op \notin {"restSearch"} => Count(e, "getSession") = 1
            /\ pc[1] = "idle"

\* The backend failed the second query of an ingest: the session is closed.
C14_Witness ==
    /\ last.op = "ingest" /\ last.kind = "error"
    /\ last.events = <<"getSession", "run", "run", "throw", "close">>
    /\ Cardinality(stmts) > 0

\* The backend queries an operation has to issue at most.
MaxQueries ==
    CASE last.op = "ingest" -> Len(Triples(last.data, FirstThreeNonEmpty))
      [] last.op \in Handlers -> 2
      [] OTHER -> 1

ResultFields ==
    {"result", "statements", "count", "success", "message",
     "statements_created", "entities_created"}

\* C16: a request sends no more backend queries than its operation has; when
\* one fails, that was the last one sent, the caller gets an error without
\* any result, and the handler is over.
C16_FailFast ==
    Answered =>
        LET e == last.events
        IN  /\ Count(e, "run") <= MaxQueries
            /\ last.kind = "ok" => Count(e, "throw") = 0
            /\ last.kind = "error" =>
                  /\ Count(e, "throw") = 1
                  /\ \A i \in 1..Len(e) :
                        e[i] = "throw" =>
                           /\ \A j \in (i + 1)..Len(e) : e[j] # "run"
                           /\ i > 1 => e[i - 1] = "run"
                  /\ \A i \in 1..(Len(e) - 1) :
                        (e[i] = "run" /\ e[i + 1] # "throw") =>
                           \E j \in (i + 1)..Len(e) : e[j] = "run"
                  /\ DOMAIN last \cap ResultFields = {}
                  /\ pc[1] = "idle" /\ loc[1] = NoLocals

\* The count query of a paged read failed: one query sent, no page query.
C16_Witness ==
    /\ last.op \in Handlers /\ last.kind = "error"
    /\ last.events = <<"getSession", "run", "throw", "close">>
    /\ last.limit > 0

(***************************************************************************)
(* What the claims say of concurrent deletes.                              *)
(***************************************************************************)
\* The callers whose delete query for id has run and who have not returned.
Deleting(id) == {c \in Callers : pc[c] = "delete" /\ loc[c].id = id}

\* Those of them whose query deleted the statement.
Succeeding(id) == {c \in Deleting(id) : loc[c].matched # {}}

\* C20: of the callers deleting one id at the same time, the one whose query
\* runs first on the stored statement deletes it and no other does, so at
\* most one of them holds a success; each returns success exactly if its
\* query deleted the statement, as a result and not as an error; the
\* statement is absent as soon as one query ran.
C20_ConcurrentDeletes ==
    [][/\ \A c \in Callers, id \in 1..MaxStored :
            DeleteQuery(c, id) =>
               /\ (c \in Succeeding(id)') = (id \in StoredIds)
               /\ id \notin StoredIds'
       /\ \A id \in 1..MaxStored :
            /\ Cardinality(Succeeding(id)') <= 1
            /\ Deleting(id)' # {} => id \notin StoredIds'
            /\ id \notin StoredIds => id \notin StoredIds'
       /\ \A c \in Callers :
            DeleteReturn(c) =>
               /\ last'.kind = "ok"
               /\ last'.result.success = (c \in Succeeding(loc[c].id))
               /\ last'.result.id = loc[c].id]_vars

\* Every caller has run its delete of the same id and none has returned yet:
\* one holds the success, the others hold none, the statement is gone.
C20_Witness ==
    \E id \in 1..MaxStored :
        /\ Deleting(id) = Callers
        /\ Cardinality(Succeeding(id)) = 1
        /\ id \notin StoredIds

====
